---- MODULE Spec2Model ----
(***************************************************************************)
(* Model of the literal recognizers of ox_idl (src/src/literal.rs) and of  *)
(* its keyword recognizers (src/src/keyword.rs).                           *)
(*                                                                         *)
(* An input is a sequence of one-character strings.  A cursor is the       *)
(* number of characters already consumed (0 = start of input).  A          *)
(* recognizer applied at a cursor yields a record                          *)
(*     [st, val, pos]                                                      *)
(* with st = "ok" (val is the output, pos the cursor after the match),     *)
(* st = "fail" (no match; pos is how far the recognizer had consumed when  *)
(* it gave up) or st = "panic" (an unwrap() on an Err aborted the process).*)
(*                                                                         *)
(* The state machine runs one recognizer on one input.  An ordered union   *)
(* (a.or(b)) is stepped one alternative at a time: a failed alternative    *)
(* reverts the cursor to the position saved on entry and the next          *)
(* alternative is tried; the first success is returned.                    *)
(***************************************************************************)
EXTENDS Integers, Sequences, FiniteSets, TLC

\* Longest input drawn exhaustively from Alphabet.
MaxLen == 4

(***************************************************************************)
(* Characters                                                              *)
(***************************************************************************)

\* char::to_digit(36): the digit value of a character, -1 when it is none.
DigitVal(c) ==
    CASE c = "0" -> 0  [] c = "1" -> 1  [] c = "2" -> 2  [] c = "3" -> 3
      [] c = "4" -> 4  [] c = "5" -> 5  [] c = "6" -> 6  [] c = "7" -> 7
      [] c = "8" -> 8  [] c = "9" -> 9
      [] c \in {"a", "A"} -> 10  [] c \in {"b", "B"} -> 11
      [] c \in {"c", "C"} -> 12  [] c \in {"d", "D"} -> 13
      [] c \in {"e", "E"} -> 14  [] c \in {"f", "F"} -> 15
      [] OTHER -> -1

\* char::is_digit(radix), the test text::int and text::digits apply.
IsDigit(c, radix) == DigitVal(c) >= 0 /\ DigitVal(c) < radix

\* char::is_whitespace on the characters used here.
IsWhitespace(c) == c \in {" ", "\t", "\n"}

\* char::is_ascii_alphabetic, which text::ident asks of a first character.
Letters ==
    {"a", "b", "c", "d", "e", "f", "g", "h", "i", "j", "k", "l", "m",
     "n", "o", "p", "q", "r", "s", "t", "u", "v", "w", "x", "y", "z",
     "A", "B", "C", "D", "E", "F", "G", "H", "I", "J", "K", "L", "M",
     "N", "O", "P", "Q", "R", "S", "T", "U", "V", "W", "X", "Y", "Z"}

IsIdentStart(c) == c \in Letters \/ c = "_"
\* Identifier characters without the digits.
IsIdentCont_no_digits(c) == c \in Letters \/ c = "_"

IsIdentCont(c) == c \in Letters \/ c = "_" \/ IsDigit(c, 10)

(***************************************************************************)
(* Results                                                                 *)
(***************************************************************************)

Ok(v, p) == [st |-> "ok", val |-> v, pos |-> p]

\* The Literal enum.  One record shape for all variants: a, b carry the
\* integer payloads, s, t the character payloads.
Lit(kind, a, b, s, t) == [kind |-> kind, a |-> a, b |-> b, s |-> s, t |-> t]
NoLit == Lit("None", 0, 0, <<>>, <<>>)
Bool(v) == Lit("Bool", IF v THEN 1 ELSE 0, 0, <<>>, <<>>)
Character(c) == Lit("Character", 0, 0, <<c>>, <<>>)
FixedPoint(i, f) == Lit("FixedPoint", i, f, <<>>, <<>>)
Integer(n) == Lit("Integer", n, 0, <<>>, <<>>)
Str(s) == Lit("Str", 0, 0, s, <<>>)

Fail(p) == [st |-> "fail", val |-> NoLit, pos |-> p]
Panic(p) == [st |-> "panic", val |-> NoLit, pos |-> p]

(***************************************************************************)
(* Digit strings and their values                                          *)
(***************************************************************************)

\* The cursor after the longest run of radix-digits that starts at cursor i.
RECURSIVE RunEnd(_, _, _)
RunEnd(s, i, radix) ==
    IF i < Len(s) /\ IsDigit(s[i + 1], radix) THEN RunEnd(s, i + 1, radix) ELSE i

\* The characters between cursor i and cursor j.
Slice(s, i, j) == SubSeq(s, i + 1, j)

RECURSIVE StripZeros(_)
StripZeros(ds) ==
    IF ds # <<>> /\ Head(ds) = "0" THEN StripZeros(Tail(ds)) ELSE ds

RECURSIVE StripTrailingZeros(_)
StripTrailingZeros(ds) ==
    IF ds # <<>> /\ ds[Len(ds)] = "0"
    THEN StripTrailingZeros(SubSeq(ds, 1, Len(ds) - 1)) ELSE ds

\* u64::MAX written in the radix.
U64MaxDigits(radix) ==
    CASE radix = 10 -> <<"1","8","4","4","6","7","4","4","0","7",
                         "3","7","0","9","5","5","1","6","1","5">>
      [] radix = 16 -> [k \in 1..16 |-> "F"]
      [] radix = 8 -> <<"1">> \o [k \in 1..21 |-> "7"]

\* a > b for two digit strings of the same length.
RECURSIVE DigitsGreater(_, _)
DigitsGreater(a, b) ==
    IF a = <<>> THEN FALSE
    ELSE IF DigitVal(Head(a)) # DigitVal(Head(b))
         THEN DigitVal(Head(a)) > DigitVal(Head(b))
         ELSE DigitsGreater(Tail(a), Tail(b))

\* from_str_radix / str::parse::<u64> returns Err(PosOverflow): the value of
\* the digit string exceeds u64::MAX.
Overflows(ds, radix) ==
    LET n == StripZeros(ds)
        m == U64MaxDigits(radix)
    IN  \/ Len(n) > Len(m)
        \/ Len(n) = Len(m) /\ DigitsGreater(n, m)

\* The value from_str_radix computes, digit by digit.
RECURSIVE DigitsValue(_, _)
DigitsValue(ds, radix) ==
    IF ds = <<>> THEN 0
    ELSE DigitsValue(SubSeq(ds, 1, Len(ds) - 1), radix) * radix + DigitVal(ds[Len(ds)])

\* The value str::parse::<f64> is given: the decimal it denotes, as the pair
\* of the integer digits without leading zeros and the fraction digits
\* without trailing zeros (binary rounding is not modelled).
FloatingPoint(d, f) ==
    Lit("FloatingPoint", 0, 0, StripZeros(d), StripTrailingZeros(f))

(***************************************************************************)
(* The library recognizers the literal recognizers are built from          *)
(***************************************************************************)

\* How many leading characters of str stand at cursor i.
RECURSIVE MatchLen(_, _, _)
MatchLen(str, s, i) ==
    IF str # <<>> /\ i < Len(s) /\ s[i + 1] = Head(str)
    THEN 1 + MatchLen(Tail(str), s, i + 1) ELSE 0

\* just(str): exactly the characters of str.
Just(str, s, i) ==
    LET n == MatchLen(str, s, i)
    IN  IF n = Len(str) THEN Ok(str, i + n) ELSE Fail(i + n)

\* text::int(radix): a non-zero digit followed by any digits, or else a
\* single "0".
TextInt(radix, s, i) ==
    IF i < Len(s) /\ IsDigit(s[i + 1], radix) /\ s[i + 1] # "0"
    THEN LET e == RunEnd(s, i + 1, radix) IN Ok(Slice(s, i, e), e)
    ELSE IF i < Len(s) /\ s[i + 1] = "0"
         THEN Ok(<<"0">>, i + 1)
         ELSE Fail(i)

\* text::digits(radix): one or more digits, as many as there are.
TextDigits(radix, s, i) ==
    LET e == RunEnd(s, i, radix)
    IN  IF e > i THEN Ok(Slice(s, i, e), e) ELSE Fail(i)

\* The cursor after the identifier characters that start at cursor i.
RECURSIVE IdentEnd(_, _)
IdentEnd(s, i) ==
    IF i < Len(s) /\ IsIdentCont(s[i + 1]) THEN IdentEnd(s, i + 1) ELSE i

\* text::ident(): a letter or '_' followed by letters, digits and '_'.
TextIdent(s, i) ==
    IF i < Len(s) /\ IsIdentStart(s[i + 1])
    THEN LET e == IdentEnd(s, i + 1) IN Ok(Slice(s, i, e), e)
    ELSE Fail(i)

\* text::keyword without the word boundary: kw as a prefix of the input.
TextKeyword_prefix(kw, s, i) == Just(kw, s, i)

\* text::keyword(kw): the identifier at the cursor, which must equal kw.
TextKeyword(kw, s, i) ==
    LET r == TextIdent(s, i)
    IN  IF r.st = "ok" /\ r.val = kw THEN Ok(kw, r.pos) ELSE Fail(r.pos)

\* text::whitespace(): any whitespace, possibly none.
RECURSIVE TextWhitespace(_, _)
TextWhitespace(s, i) ==
    IF i < Len(s) /\ IsWhitespace(s[i + 1]) THEN TextWhitespace(s, i + 1) ELSE i

(***************************************************************************)
(* The literal recognizers (impl Literal)                                  *)
(***************************************************************************)

\* d.parse::<u64>().unwrap() and u64::from_str_radix(d, radix).unwrap(): the
\* value of the digits, or a panic at cursor p when it does not fit.
ParseU64(ds, radix, p) ==
    IF Overflows(ds, radix) THEN Panic(p) ELSE Ok(DigitsValue(ds, radix), p)

true_parser(s, i) ==
    LET r == TextKeyword(<<"T", "R", "U", "E">>, s, i)
    IN  IF r.st = "ok" THEN Ok(Bool(TRUE), r.pos) ELSE Fail(r.pos)

false_parser(s, i) ==
    LET r == TextKeyword(<<"F", "A", "L", "S", "E">>, s, i)
    IN  IF r.st = "ok" THEN Ok(Bool(FALSE), r.pos) ELSE Fail(r.pos)

dec_int_parser(s, i) ==
    LET d == TextInt(10, s, i)
    IN  IF d.st # "ok" THEN Fail(d.pos)
        ELSE LET n == ParseU64(d.val, 10, d.pos)
             IN  IF n.st = "ok" THEN Ok(Integer(n.val), d.pos) ELSE Panic(d.pos)

hex_int_parser(s, i) ==
    LET x == Just(<<"0", "x">>, s, i)
        p == IF x.st = "ok" THEN x ELSE Just(<<"0", "X">>, s, i)
    IN  IF p.st # "ok" THEN Fail(p.pos)
        ELSE LET d == TextInt(16, s, p.pos)
             IN  IF d.st # "ok" THEN Fail(d.pos)
                 ELSE LET n == ParseU64(d.val, 16, d.pos)
                      IN  IF n.st = "ok" THEN Ok(Integer(n.val), d.pos)
                          ELSE Panic(d.pos)

oct_int_parser(s, i) ==
    LET p == Just(<<"0">>, s, i)
    IN  IF p.st # "ok" THEN Fail(p.pos)
        ELSE LET d == TextInt(8, s, p.pos)
             IN  IF d.st # "ok" THEN Fail(d.pos)
                 ELSE LET n == ParseU64(d.val, 8, d.pos)
                      IN  IF n.st = "ok" THEN Ok(Integer(n.val), d.pos)
                          ELSE Panic(d.pos)

\* float_parser's decimal_only: digits, then a dot.
float_decimal_only(s, i) ==
    LET d == TextDigits(10, s, i)
    IN  IF d.st # "ok" THEN Fail(d.pos)
        ELSE LET dot == Just(<<".">>, s, d.pos)
             IN  IF dot.st # "ok" THEN Fail(dot.pos)
                 ELSE Ok(FloatingPoint(d.val, <<>>), dot.pos)

\* float_parser's fractional_only: a dot, then digits.
float_fractional_only(s, i) ==
    LET dot == Just(<<".">>, s, i)
    IN  IF dot.st # "ok" THEN Fail(dot.pos)
        ELSE LET f == TextDigits(10, s, dot.pos)
             IN  IF f.st # "ok" THEN Fail(f.pos)
                 ELSE Ok(FloatingPoint(<<>>, f.val), f.pos)

\* float_parser's decimal_and_fractional: digits, a dot, digits.
float_decimal_and_fractional(s, i) ==
    LET d == TextDigits(10, s, i)
    IN  IF d.st # "ok" THEN Fail(d.pos)
        ELSE LET dot == Just(<<".">>, s, d.pos)
             IN  IF dot.st # "ok" THEN Fail(dot.pos)
                 ELSE LET f == TextDigits(10, s, dot.pos)
                      IN  IF f.st # "ok" THEN Fail(f.pos)
                          ELSE Ok(FloatingPoint(d.val, f.val), f.pos)

\* fixed_parser's the_d: 'd' or 'D'.
the_d(s, i) ==
    LET a == Just(<<"d">>, s, i)
    IN  IF a.st = "ok" THEN a ELSE Just(<<"D">>, s, i)

\* fixed_parser's decimal_only: digits, at most one dot, the suffix.
fixed_decimal_only(s, i) ==
    LET d == TextDigits(10, s, i)
    IN  IF d.st # "ok" THEN Fail(d.pos)
        ELSE LET dot == Just(<<".">>, s, d.pos)
                 q == IF dot.st = "ok" THEN dot.pos ELSE d.pos
                 e == the_d(s, q)
             IN  IF e.st # "ok" THEN Fail(e.pos)
                 ELSE LET n == ParseU64(d.val, 10, e.pos)
                      IN  IF n.st = "ok" THEN Ok(FixedPoint(n.val, 0), e.pos)
                          ELSE Panic(e.pos)

\* fractional_only with the fraction normalized: trailing zeros dropped.
fixed_fractional_only_normalized(s, i) ==
    LET dot == Just(<<".">>, s, i)
    IN  IF dot.st # "ok" THEN Fail(dot.pos)
        ELSE LET f == TextDigits(10, s, dot.pos)
             IN  IF f.st # "ok" THEN Fail(f.pos)
                 ELSE LET e == the_d(s, f.pos)
                      IN  IF e.st # "ok" THEN Fail(e.pos)
                          ELSE LET n == ParseU64(StripTrailingZeros(f.val),
                                                 10, e.pos)
                               IN  IF n.st = "ok"
                                   THEN Ok(FixedPoint(0, n.val), e.pos)
                                   ELSE Panic(e.pos)

\* fixed_parser's fractional_only: a dot, digits, the suffix.
fixed_fractional_only(s, i) ==
    LET dot == Just(<<".">>, s, i)
    IN  IF dot.st # "ok" THEN Fail(dot.pos)
        ELSE LET f == TextDigits(10, s, dot.pos)
             IN  IF f.st # "ok" THEN Fail(f.pos)
                 ELSE LET e == the_d(s, f.pos)
                      IN  IF e.st # "ok" THEN Fail(e.pos)
                          ELSE LET n == ParseU64(f.val, 10, e.pos)
                               IN  IF n.st = "ok"
                                   THEN Ok(FixedPoint(0, n.val), e.pos)
                                   ELSE Panic(e.pos)

\* decimal_and_fractional with the two payloads the wrong way round.
fixed_decimal_and_fractional_swapped(s, i) ==
    LET d == TextDigits(10, s, i)
    IN  IF d.st # "ok" THEN Fail(d.pos)
        ELSE LET dot == Just(<<".">>, s, d.pos)
             IN  IF dot.st # "ok" THEN Fail(dot.pos)
                 ELSE LET f == TextDigits(10, s, dot.pos)
                      IN  IF f.st # "ok" THEN Fail(f.pos)
                          ELSE LET e == the_d(s, f.pos)
                               IN  IF e.st # "ok" THEN Fail(e.pos)
                                   ELSE LET n == ParseU64(d.val, 10, e.pos)
                                            m == ParseU64(f.val, 10, e.pos)
                                        IN  IF n.st = "ok" /\ m.st = "ok"
                                            THEN Ok(FixedPoint(m.val, n.val), e.pos)
                                            ELSE Panic(e.pos)

\* fixed_parser's decimal_and_fractional: digits, a dot, digits, the suffix.
fixed_decimal_and_fractional(s, i) ==
    LET d == TextDigits(10, s, i)
    IN  IF d.st # "ok" THEN Fail(d.pos)
        ELSE LET dot == Just(<<".">>, s, d.pos)
             IN  IF dot.st # "ok" THEN Fail(dot.pos)
                 ELSE LET f == TextDigits(10, s, dot.pos)
                      IN  IF f.st # "ok" THEN Fail(f.pos)
                          ELSE LET e == the_d(s, f.pos)
                               IN  IF e.st # "ok" THEN Fail(e.pos)
                                   ELSE LET n == ParseU64(d.val, 10, e.pos)
                                            m == ParseU64(f.val, 10, e.pos)
                                        IN  IF n.st = "ok" /\ m.st = "ok"
                                            THEN Ok(FixedPoint(n.val, m.val), e.pos)
                                            ELSE Panic(e.pos)

\* A character outside ASCII is written as its code point, "U+00E9".
IsAscii(c) == Len(c) = 1

\* char_parser taking every character up to the closing quote.
char_parser_many(s, i) ==
    LET open == Just(<<"'">>, s, i)
    IN  IF open.st # "ok" THEN Fail(open.pos)
        ELSE IF ~(open.pos < Len(s) /\ IsAscii(s[open.pos + 1]))
             THEN Fail(open.pos)
             ELSE LET n == CHOOSE m \in (open.pos + 1)..Len(s) :
                               m = Len(s) \/ s[m + 1] = "'"
                      close == Just(<<"'">>, s, n)
                  IN  IF close.st # "ok" THEN Fail(close.pos)
                      ELSE Ok(Character(s[open.pos + 1]), close.pos)

char_parser(s, i) ==
    LET open == Just(<<"'">>, s, i)
    IN  IF open.st # "ok" THEN Fail(open.pos)
        ELSE IF ~(open.pos < Len(s) /\ IsAscii(s[open.pos + 1]))
             THEN Fail(open.pos)
             ELSE LET close == Just(<<"'">>, s, open.pos + 1)
                  IN  IF close.st # "ok" THEN Fail(close.pos)
                      ELSE Ok(Character(s[open.pos + 1]), close.pos)

\* The cursor after the characters other than '"' that start at cursor i.
RECURSIVE NotQuoteEnd(_, _)
NotQuoteEnd(s, i) ==
    IF i < Len(s) /\ s[i + 1] # "\"" THEN NotQuoteEnd(s, i + 1) ELSE i

\* string_parser's single_string: '"', characters other than '"', '"'.
single_string(s, i) ==
    LET open == Just(<<"\"">>, s, i)
    IN  IF open.st # "ok" THEN Fail(open.pos)
        ELSE LET e == NotQuoteEnd(s, open.pos)
                 close == Just(<<"\"">>, s, e)
             IN  IF close.st # "ok" THEN Fail(close.pos)
                 ELSE Ok(Slice(s, open.pos, e), close.pos)

\* The segments joined with a space put between them.
RECURSIVE Segments_spaced(_, _, _)
Segments_spaced(s, i, acc) ==
    LET seg == single_string(s, i)
    IN  IF seg.st # "ok" THEN Ok(acc, i)
        ELSE Segments_spaced(s, TextWhitespace(s, seg.pos),
                             IF i = 0 THEN seg.val ELSE acc \o <<" ">> \o seg.val)

\* single_string.then_ignore(text::whitespace()).repeated(): segments are
\* collected until one does not match; the cursor stays after the last
\* segment that did, and its trailing whitespace.
RECURSIVE Segments(_, _, _)
Segments(s, i, acc) ==
    LET seg == single_string(s, i)
    IN  IF seg.st # "ok" THEN Ok(acc, i)
        ELSE Segments(s, TextWhitespace(s, seg.pos), acc \o seg.val)

\* string_parser asking for at least one segment.
string_parser_at_least_one(s, i) ==
    LET vs == Segments(s, i, <<>>)
    IN  IF vs.pos = i THEN Fail(i) ELSE Ok(Str(vs.val), vs.pos)

string_parser(s, i) ==
    LET vs == Segments(s, i, <<>>) IN Ok(Str(vs.val), vs.pos)

(***************************************************************************)
(* Ordered unions: a.or(b).or(c) as the sequence of its alternatives       *)
(***************************************************************************)

bool_parser == <<"true_parser", "false_parser">>

int_parser == <<"hex_int_parser", "oct_int_parser", "dec_int_parser">>

\* float_parser with decimal_only tried first.
float_parser_decimal_only_first ==
    <<"float_decimal_only", "float_decimal_and_fractional",
      "float_fractional_only">>

float_parser ==
    <<"float_decimal_and_fractional", "float_decimal_only",
      "float_fractional_only">>

fixed_parser ==
    <<"fixed_decimal_and_fractional", "fixed_decimal_only",
      "fixed_fractional_only">>

\* Literal::parser() with int_parser tried before float_parser.
parser_int_before_float ==
    <<"bool_parser", "fixed_parser", "int_parser", "float_parser",
      "char_parser", "string_parser">>

\* Literal::parser()
parser ==
    <<"bool_parser", "fixed_parser", "float_parser", "int_parser",
      "char_parser", "string_parser">>

Unions ==
    {"bool_parser", "int_parser", "float_parser", "fixed_parser", "parser"}

\* The alternatives of a recognizer; one that is no union is its own only
\* alternative.
Alternatives(p) ==
    CASE p = "bool_parser" -> bool_parser
      [] p = "int_parser" -> int_parser
      [] p = "float_parser" -> float_parser
      [] p = "fixed_parser" -> fixed_parser
      [] p = "parser" -> parser
      [] OTHER -> <<p>>

Max(a, b) == IF a > b THEN a ELSE b

RECURSIVE Run(_, _, _)
RECURSIVE FirstOf(_, _, _, _, _)

\* Or: the alternatives from the k-th on, each tried at cursor i; the first
\* that does not fail decides.  When all fail, the failure that got
\* furthest (far) is the union's.
FirstOf(alts, k, s, i, far) ==
    IF k > Len(alts) THEN Fail(far)
    ELSE LET r == Run(alts[k], s, i)
         IN  IF r.st = "fail" THEN FirstOf(alts, k + 1, s, i, Max(far, r.pos))
             ELSE r

\* The recognizer named p applied to s at cursor i.
Run(p, s, i) ==
    CASE p = "true_parser" -> true_parser(s, i)
      [] p = "false_parser" -> false_parser(s, i)
      [] p = "dec_int_parser" -> dec_int_parser(s, i)
      [] p = "hex_int_parser" -> hex_int_parser(s, i)
      [] p = "oct_int_parser" -> oct_int_parser(s, i)
      [] p = "float_decimal_only" -> float_decimal_only(s, i)
      [] p = "float_fractional_only" -> float_fractional_only(s, i)
      [] p = "float_decimal_and_fractional" -> float_decimal_and_fractional(s, i)
      [] p = "fixed_decimal_only" -> fixed_decimal_only(s, i)
      [] p = "fixed_fractional_only" -> fixed_fractional_only(s, i)
      [] p = "fixed_decimal_and_fractional" -> fixed_decimal_and_fractional(s, i)
      [] p = "char_parser" -> char_parser(s, i)
      [] p = "string_parser" -> string_parser(s, i)
      [] p \in Unions -> FirstOf(Alternatives(p), 1, s, i, i)

(***************************************************************************)
(* Inputs                                                                  *)
(***************************************************************************)

Alphabet == {"0", "3", "8", "x", "d", ".", "\""}

\* Every input of at most MaxLen characters over Alphabet.
ShortInputs == UNION {[1..n -> Alphabet] : n \in 0..MaxLen}

\* 2^64 in decimal: the least digit run that does not fit in a u64.
Dec2p64 ==
    <<"1","8","4","4","6","7","4","4","0","7",
      "3","7","0","9","5","5","1","6","1","6">>

\* Inputs with digit runs beyond the u64 range.
LongInputs ==
    { Dec2p64,
      Dec2p64 \o <<"d">>,
      Dec2p64 \o <<".", "D">>,
      Dec2p64 \o <<".", "3", "d">>,
      <<"3", ".">> \o Dec2p64 \o <<"d">>,
      <<".">> \o Dec2p64 \o <<"d">>,
      <<".">> \o Dec2p64,
      Dec2p64 \o <<".", "3">>,
      <<"0", "x", "1">> \o [k \in 1..16 |-> "0"],
      <<"0", "X">> \o [k \in 1..17 |-> "f"],
      <<"0">> \o [k \in 1..22 |-> "7"] }

\* Inputs with characters outside Alphabet.
OtherInputs ==
    { <<"T", "R", "U", "E">>, <<"F", "A", "L", "S", "E">>,
      <<"T", "R", "U", "E", "x">>, <<"T", "R", "U", "E", " ">>,
      <<"t", "r", "u", "e">>, <<"f", "A", "l", "s", "e">>,
      <<"F", "A", "L", "S", "E", "_">>,
      <<"0", "X", "3">>, <<"0", "X">>, <<"0", "X", "0", "F">>,
      <<"0", "x", "a", "F">>, <<"0", "x", "g">>, <<"0", "X", " ">>,
      <<"0", "7", "7", "7">>, <<"0", "1", "2", "9">>, <<"0", "1", "8">>,
      <<"0", "0", "7">>, <<"0", "9", "1">>,
      <<"3", ".", "6", "D">>, <<"3", "D">>, <<".", "3", "D">>,
      <<"3", ".", "D">>, <<".", "3", "0", "d">>, <<"3", ".", "0", "3", "d">>,
      <<"3", ".", "3", "0", "d">>, <<"2", ".", "1", " ">>, <<"2", ".", "e">>,
      <<"'", "A", "'">>, <<"'", "A", "B", "'">>, <<"'", "'">>,
      <<"'", "A">>, <<"'", "U+00E9", "'">>, <<"'", "\"", "'">>,
      <<"\"", "\"">>, <<"\"", "a", "b", "\"">>, <<"\"", "a", "b">>,
      <<"\"">>, <<"\"", "a", "\"", " ", "\"", "b", "\"">>,
      <<"\"", "a", "\"", "\"", "b", "\"">>,
      <<"\"", "a", "\"", " ", " ", "\"", "\"", "x">>,
      <<"\"", "a", "\"", " ", "\"", "b">>,
      <<"\"", "a", " ", "b", "\"", " ">>,
      <<"s", "t", "r", "u", "c", "t", "x">>, <<" ", "3">>,
      <<"'", "'", "'">>, <<"'", "'", "x">>, <<"'", "3", "'", "x">>,
      <<"'", "A", "B">>, <<"'", " ", "'">>, <<"'", "A", "B", "C", "'">>,
      <<"\"", "a", "\"", " ", "\"", "b", "\"", "\t", "\"", "c", "\"">>,
      <<"\"", "\"", " ", "\"", "a", "\"">>,
      <<"\"", "a", "\"", "\n", "\"", "\"">>,
      <<"\"", "a", " ", "b", "\"", " ", "\"", " ", "c", "\"">>,
      <<"\"", "a", "\"", "x", "\"", "b", "\"">>,
      <<"\"", "H", "i", "\"", " ", " ", "\"", "W", "\"">> }

Inputs == ShortInputs \cup LongInputs \cup OtherInputs

\* The recognizers a caller can build.
Targets ==
    {"true_parser", "false_parser", "bool_parser", "dec_int_parser",
     "hex_int_parser", "oct_int_parser", "int_parser", "float_parser",
     "fixed_parser", "char_parser", "string_parser", "parser"}

(***************************************************************************)
(* Keywords (src/src/keyword.rs)                                           *)
(***************************************************************************)

\* char::to_ascii_lowercase
ToAsciiLowercase(c) ==
    CASE c = "A" -> "a"
      [] c = "B" -> "b"
      [] c = "C" -> "c"
      [] c = "D" -> "d"
      [] c = "E" -> "e"
      [] c = "F" -> "f"
      [] c = "G" -> "g"
      [] c = "H" -> "h"
      [] c = "I" -> "i"
      [] c = "J" -> "j"
      [] c = "K" -> "k"
      [] c = "L" -> "l"
      [] c = "M" -> "m"
      [] c = "N" -> "n"
      [] c = "O" -> "o"
      [] c = "P" -> "p"
      [] c = "Q" -> "q"
      [] c = "R" -> "r"
      [] c = "S" -> "s"
      [] c = "T" -> "t"
      [] c = "U" -> "u"
      [] c = "V" -> "v"
      [] c = "W" -> "w"
      [] c = "X" -> "x"
      [] c = "Y" -> "y"
      [] c = "Z" -> "z"
      [] OTHER -> c

\* enum Keyword: every variant, written as its Debug name.
Keywords ==
    {
      <<"A", "b", "s", "t", "r", "a", "c", "t">>,
      <<"A", "n", "y">>,
      <<"A", "l", "i", "a", "s">>,
      <<"A", "t", "t", "r", "i", "b", "u", "t", "e">>,
      <<"B", "i", "t", "f", "i", "e", "l", "d">>,
      <<"B", "i", "t", "m", "a", "s", "k">>,
      <<"B", "i", "t", "s", "e", "t">>,
      <<"B", "o", "o", "l", "e", "a", "n">>,
      <<"C", "a", "s", "e">>,
      <<"C", "h", "a", "r">>,
      <<"C", "o", "m", "p", "o", "n", "e", "n", "t">>,
      <<"C", "o", "n", "n", "e", "c", "t", "o", "r">>,
      <<"C", "o", "n", "s", "t">>,
      <<"C", "o", "n", "s", "u", "m", "e", "s">>,
      <<"C", "o", "n", "t", "e", "x", "t">>,
      <<"C", "u", "s", "t", "o", "m">>,
      <<"D", "e", "f", "a", "u", "l", "t">>,
      <<"D", "o", "u", "b", "l", "e">>,
      <<"E", "x", "c", "e", "p", "t", "i", "o", "n">>,
      <<"E", "m", "i", "t", "s">>,
      <<"E", "n", "u", "m">>,
      <<"E", "v", "e", "n", "t", "T", "y", "p", "e">>,
      <<"F", "a", "c", "t", "o", "r", "y">>,
      <<"F", "a", "l", "s", "e">>,
      <<"F", "i", "n", "d", "e", "r">>,
      <<"F", "i", "x", "e", "d">>,
      <<"F", "l", "o", "a", "t">>,
      <<"G", "e", "t", "R", "a", "i", "s", "e", "s">>,
      <<"H", "o", "m", "e">>,
      <<"I", "m", "p", "o", "r", "t">>,
      <<"I", "n">>,
      <<"I", "n", "O", "u", "t">>,
      <<"I", "n", "t", "e", "r", "f", "a", "c", "e">>,
      <<"L", "o", "c", "a", "l">>,
      <<"L", "o", "n", "g">>,
      <<"M", "a", "n", "a", "g", "e", "s">>,
      <<"M", "a", "p">>,
      <<"M", "i", "r", "r", "o", "r", "P", "o", "r", "t">>,
      <<"M", "o", "d", "u", "l", "e">>,
      <<"M", "u", "l", "t", "i", "p", "l", "e">>,
      <<"N", "a", "t", "i", "v", "e">>,
      <<"O", "b", "j", "e", "c", "t">>,
      <<"O", "c", "t", "e", "t">>,
      <<"O", "n", "e", "W", "a", "y">>,
      <<"O", "u", "t">>,
      <<"P", "r", "i", "m", "a", "r", "y", "K", "e", "y">>,
      <<"P", "r", "i", "v", "a", "t", "e">>,
      <<"P", "o", "r", "t">>,
      <<"P", "o", "r", "t", "T", "y", "p", "e">>,
      <<"P", "r", "o", "v", "i", "d", "e", "s">>,
      <<"P", "u", "b", "l", "i", "c">>,
      <<"P", "u", "b", "l", "i", "s", "h", "e", "s">>,
      <<"R", "a", "i", "s", "e", "s">>,
      <<"R", "e", "a", "d", "O", "n", "l", "y">>,
      <<"S", "e", "t", "R", "a", "i", "s", "e", "s">>,
      <<"S", "e", "q", "u", "e", "n", "c", "e">>,
      <<"S", "h", "o", "r", "t">>,
      <<"S", "t", "r", "i", "n", "g">>,
      <<"S", "t", "r", "u", "c", "t">>,
      <<"S", "u", "p", "p", "o", "r", "t", "s">>,
      <<"S", "w", "i", "t", "c", "h">>,
      <<"T", "r", "u", "e">>,
      <<"T", "r", "u", "n", "c", "a", "t", "a", "b", "l", "e">>,
      <<"T", "y", "p", "e", "d", "e", "f">>,
      <<"T", "y", "p", "e", "I", "d">>,
      <<"T", "y", "p", "e", "N", "a", "m", "e">>,
      <<"T", "y", "p", "e", "P", "r", "e", "f", "i", "x">>,
      <<"U", "n", "s", "i", "g", "n", "e", "d">>,
      <<"U", "n", "i", "o", "n">>,
      <<"U", "s", "e", "s">>,
      <<"V", "a", "l", "u", "e", "B", "a", "s", "e">>,
      <<"V", "a", "l", "u", "e", "T", "y", "p", "e">>,
      <<"V", "o", "i", "d">>,
      <<"W", "C", "h", "a", "r">>,
      <<"W", "S", "t", "r", "i", "n", "g">>,
      <<"I", "n", "t", "8">>,
      <<"I", "n", "t", "1", "6">>,
      <<"I", "n", "t", "3", "2">>,
      <<"I", "n", "t", "6", "4">>,
      <<"U", "I", "n", "t", "8">>,
      <<"U", "I", "n", "t", "1", "6">>,
      <<"U", "I", "n", "t", "3", "2">>,
      <<"U", "I", "n", "t", "6", "4">> }

\* Display for Keyword: four variants keep upper-case letters, every other
\* one is its Debug name in lower case.
to_string(k) ==
    CASE k = <<"F", "a", "l", "s", "e">> -> <<"F", "A", "L", "S", "E">>
      [] k = <<"O", "b", "j", "e", "c", "t">> -> <<"O", "b", "j", "e", "c", "t">>
      [] k = <<"T", "r", "u", "e">> -> <<"T", "R", "U", "E">>
      [] k = <<"V", "a", "l", "u", "e", "B", "a", "s", "e">> ->
            <<"V", "a", "l", "u", "e", "B", "a", "s", "e">>
      [] OTHER -> [n \in 1..Len(k) |-> ToAsciiLowercase(k[n])]

\* What Keyword::make_parser outputs: the keyword itself.
KeywordOut(k) == Lit("Keyword", 0, 0, k, <<>>)

\* Keyword::make_parser: text::keyword(self.to_string()).to(self.clone())
make_parser(k, s, i) ==
    LET r == TextKeyword(to_string(k), s, i)
    IN  IF r.st = "ok" THEN Ok(KeywordOut(k), r.pos) ELSE Fail(r.pos)

\* The texts the keyword recognizers are run on: every spelling, alone,
\* followed or preceded by another character, cut short, and in other case.
KeywordInputs ==
    UNION { LET sp == to_string(k)
            IN  { sp, k,
                  sp \o <<"x">>, sp \o <<"_">>, sp \o <<"8">>,
                  sp \o <<" ">>, sp \o <<".">>, sp \o <<"U+00E9">>,
                  sp \o <<" ", "x">>,
                  <<"_">> \o sp, <<" ">> \o sp, <<"8">> \o sp,
                  SubSeq(sp, 1, Len(sp) - 1),
                  [n \in 1..Len(sp) |-> ToAsciiLowercase(sp[n])] }
          : k \in Keywords }

\* The recognizers of reserved words.
KeywordTargets == {"true_parser", "false_parser", "bool_parser"}

\* No keyword: the call is not one of Keyword::make_parser.
NoKeyword == <<>>

(***************************************************************************)
(* The state machine: target.parse(input)                                  *)
(***************************************************************************)

VARIABLES
    input,      \* the text being parsed
    target,     \* the recognizer parse() was called on
    alt,        \* the alternative of target that is tried next
    cursor,     \* characters consumed so far
    pc,         \* "running", "done", "failed" or "panicked"
    result,     \* the result once pc is "done" or "failed"
    attempts,   \* the alternatives tried so far, with cursor and outcome
    keyword     \* the Keyword make_parser was called on, or NoKeyword

vars == <<input, target, alt, cursor, pc, result, attempts, keyword>>

\* Parser::parse: the stream starts at the beginning of the input.
Init ==
    /\ \/ /\ target \in Targets
          /\ input \in Inputs
          /\ keyword = NoKeyword
       \/ /\ target \in KeywordTargets
          /\ input \in KeywordInputs
          /\ keyword = NoKeyword
       \/ /\ target = "make_parser"
          /\ input \in KeywordInputs
          /\ keyword \in Keywords
    /\ alt = 1
    /\ cursor = 0
    /\ pc = "running"
    /\ result = [st |-> "none", val |-> NoLit, pos |-> 0]
    /\ attempts = <<>>

\* The alternative tried next, and what it yields from the current cursor.
CurrentAlt == Alternatives(target)[alt]
Outcome ==
    IF target = "make_parser" THEN make_parser(keyword, input, cursor)
    ELSE Run(CurrentAlt, input, cursor)
Attempt(r) == [p |-> CurrentAlt, from |-> cursor, st |-> r.st, pos |-> r.pos]

\* The furthest cursor any attempt so far reached.
RECURSIVE Furthest(_)
Furthest(as) ==
    IF as = <<>> THEN 0 ELSE Max(Head(as).pos, Furthest(Tail(as)))

\* The alternative matches: the union returns its output.
AltSucceeds ==
    /\ pc = "running"
    /\ Outcome.st = "ok"
    /\ result' = Outcome
    /\ cursor' = Outcome.pos
    /\ pc' = "done"
    /\ attempts' = Append(attempts, Attempt(Outcome))
    /\ UNCHANGED <<input, target, alt, keyword>>

\* AltFails without the revert: the next alternative goes on from where the
\* failed one stopped.
AltFails_no_revert ==
    /\ pc = "running"
    /\ Outcome.st = "fail"
    /\ alt < Len(Alternatives(target))
    /\ alt' = alt + 1
    /\ cursor' = Outcome.pos
    /\ attempts' = Append(attempts, Attempt(Outcome))
    /\ UNCHANGED <<input, target, pc, result, keyword>>

\* The alternative fails and another is left: the stream is reverted to the
\* state saved on entry (the start of the input) and the next one is tried.
AltFails ==
    /\ pc = "running"
    /\ Outcome.st = "fail"
    /\ alt < Len(Alternatives(target))
    /\ alt' = alt + 1
    /\ cursor' = 0
    /\ attempts' = Append(attempts, Attempt(Outcome))
    /\ UNCHANGED <<input, target, pc, result, keyword>>

\* The last alternative fails: parse() returns Err.
LastAltFails ==
    /\ pc = "running"
    /\ Outcome.st = "fail"
    /\ alt = Len(Alternatives(target))
    /\ attempts' = Append(attempts, Attempt(Outcome))
    /\ result' = Fail(Furthest(attempts'))
    /\ cursor' = Furthest(attempts')
    /\ pc' = "failed"
    /\ UNCHANGED <<input, target, alt, keyword>>

\* The alternative's unwrap() panics: the process aborts, nothing returns.
AltPanics ==
    /\ pc = "running"
    /\ Outcome.st = "panic"
    /\ attempts' = Append(attempts, Attempt(Outcome))
    /\ cursor' = Outcome.pos
    /\ pc' = "panicked"
    /\ UNCHANGED <<input, target, alt, result, keyword>>

Next == AltSucceeds \/ AltFails \/ LastAltFails \/ AltPanics

Spec == Init /\ [][Next]_vars

(***************************************************************************)
(* Properties                                                              *)
(***************************************************************************)

\* parse() is over: it returned Ok, returned Err, or the process aborted.
Terminal == pc \in {"done", "failed", "panicked"}

\* The shape of a number at the start of s: a digit run, then possibly a
\* dot and a second digit run.
IntEnd(s) == RunEnd(s, 0, 10)
HasDot(s) == IntEnd(s) < Len(s) /\ s[IntEnd(s) + 1] = "."
ShapeEnd(s) == IF HasDot(s) THEN RunEnd(s, IntEnd(s) + 1, 10) ELSE IntEnd(s)
IntRun(s) == Slice(s, 0, IntEnd(s))
FracRun(s) == IF HasDot(s) THEN Slice(s, IntEnd(s) + 1, ShapeEnd(s)) ELSE <<>>
SuffixFollows(s) == ShapeEnd(s) < Len(s) /\ s[ShapeEnd(s) + 1] \in {"d", "D"}

\* s begins with a fixed-point literal: digits '.' digits, digits with an
\* optional '.', or '.' digits, and then 'd' or 'D'.
FixedLiteralAtStart(s) ==
    /\ IntRun(s) # <<>> \/ FracRun(s) # <<>>
    /\ SuffixFollows(s)

\* s begins with a floating-point shape that no 'd' or 'D' follows.
FloatShapeAtStart(s) ==
    /\ HasDot(s)
    /\ IntRun(s) # <<>> \/ FracRun(s) # <<>>
    /\ ~SuffixFollows(s)

\* s is "0x" or "0X" followed by hex digits only, at least one.
HexLiteral(s) ==
    /\ Len(s) >= 3
    /\ s[1] = "0" /\ s[2] \in {"x", "X"}
    /\ \A k \in 3..Len(s) : IsDigit(s[k], 16)

\* s is "0" followed by digits 0-7 only, at least one.
OctLiteral(s) ==
    /\ Len(s) >= 2
    /\ s[1] = "0"
    /\ \A k \in 2..Len(s) : IsDigit(s[k], 8)

\* C1: hex_int_parser applied to "0x"+d or "0X"+d, d any non-empty run of
\* hex digits (a leading 0 included), returns Integer(base16(d)) with the
\* cursor after the last digit of d.
C1_HexParsesEveryDigitRun ==
    (target = "hex_int_parser" /\ Terminal /\ HexLiteral(input)) =>
        /\ pc = "done"
        /\ cursor = Len(input)
        /\ result.val = Integer(DigitsValue(Slice(input, 2, Len(input)), 16))

\* C2: oct_int_parser applied to "0"+d, d any non-empty run of digits 0-7
\* (a leading 0 included), returns Integer(base8(d)) with the cursor after
\* the last digit of d.
C2_OctParsesEveryDigitRun ==
    (target = "oct_int_parser" /\ Terminal /\ OctLiteral(input)) =>
        /\ pc = "done"
        /\ cursor = Len(input)
        /\ result.val = Integer(DigitsValue(Slice(input, 1, Len(input)), 8))

\* C3: on every input that begins with a fixed-point literal,
\* Literal::parser() returns a FixedPoint with the cursor after the d/D
\* suffix.
C3_FixedBeforeFloat ==
    (target = "parser" /\ Terminal /\ FixedLiteralAtStart(input)) =>
        /\ pc = "done"
        /\ result.val.kind = "FixedPoint"
        /\ cursor = ShapeEnd(input) + 1

\* C4: on every input that begins with a floating-point shape not followed
\* by d or D, Literal::parser() returns a FloatingPoint with the cursor
\* after the whole shape, and int_parser is never reached.
C4_FloatBeforeInt ==
    (target = "parser" /\ FloatShapeAtStart(input)) =>
        /\ \A k \in 1..Len(attempts) : attempts[k].p # "int_parser"
        /\ Terminal =>
              /\ pc = "done"
              /\ result.val.kind = "FloatingPoint"
              /\ cursor = ShapeEnd(input)

\* C4 witness: parser() has returned a FloatingPoint for an input with
\* both digit runs, after fixed_parser was tried and failed.
C4_Witness ==
    /\ target = "parser" /\ pc = "done"
    /\ FloatShapeAtStart(input)
    /\ IntRun(input) # <<>> /\ FracRun(input) # <<>>
    /\ result.val.kind = "FloatingPoint"
    /\ cursor = ShapeEnd(input)
    /\ attempts[2].p = "fixed_parser" /\ attempts[2].pos > 0

\* C5: int_parser tries hex_int_parser, oct_int_parser, dec_int_parser in
\* this order, each from the starting cursor, and returns the value and
\* cursor of the first that succeeds; it fails only when all three fail,
\* and never returns the decimal reading of an input hex or octal accepts.
C5_IntFirstSuccess ==
    (target = "int_parser" /\ Terminal) =>
        LET h == Run("hex_int_parser", input, 0)
            o == Run("oct_int_parser", input, 0)
            d == Run("dec_int_parser", input, 0)
        IN  /\ \A k \in 1..Len(attempts) :
                  attempts[k].p = int_parser[k] /\ attempts[k].from = 0
            /\ h.st = "ok" => (pc = "done" /\ result = h)
            /\ (h.st # "ok" /\ o.st = "ok") => (pc = "done" /\ result = o)
            /\ (h.st # "ok" /\ o.st # "ok" /\ d.st = "ok") =>
                  (pc = "done" /\ result = d)
            /\ pc = "failed" <=>
                  (h.st = "fail" /\ o.st = "fail" /\ d.st = "fail")
            /\ (pc = "done" /\ (h.st = "ok" \/ o.st = "ok")) => result # d

\* C6: no recognizer call ever aborts the process: a digit run beyond the
\* unsigned 64-bit range is an error result, not a panic.
C6_NeverPanics == pc # "panicked"

\* s starts with '"' and has no second '"'.
UnterminatedString(s) ==
    /\ Len(s) >= 1
    /\ s[1] = "\""
    /\ \A k \in 2..Len(s) : s[k] # "\""

\* C7: string_parser, and Literal::parser() when it reaches string_parser,
\* fails on every input that opens a quote and never closes it.
C7_UnterminatedStringFails ==
    (target \in {"string_parser", "parser"} /\ Terminal
       /\ UnterminatedString(input)) =>
        pc = "failed"

\* s is "0x" or "0X" followed by the end of input or by no hex digit.
BareHexPrefix(s) ==
    /\ Len(s) >= 2
    /\ s[1] = "0" /\ s[2] \in {"x", "X"}
    /\ Len(s) = 2 \/ ~IsDigit(s[3], 16)

\* C8: on a hex prefix with no digit after it neither hex_int_parser nor
\* int_parser returns an Integer.
C8_BareHexPrefixNoInteger ==
    (target \in {"hex_int_parser", "int_parser"} /\ Terminal
       /\ BareHexPrefix(input)) =>
        ~(pc = "done" /\ result.val.kind = "Integer")

\* s is "0" followed by a run of decimal digits with an 8 or a 9 in it.
NonOctalRun(s) ==
    /\ Len(s) >= 2
    /\ s[1] = "0"
    /\ \E k \in 2..RunEnd(s, 1, 10) : s[k] \in {"8", "9"}

\* C9: oct_int_parser returns no match on '0' followed by a run of decimal
\* digits that has an 8 or a 9 anywhere in it.
C9_OctRejectsEightAndNine ==
    (target = "oct_int_parser" /\ Terminal /\ NonOctalRun(input)) =>
        pc = "failed"

\* The inputs that are one fixed-point literal and nothing else.
IsFixedLiteral(s) == FixedLiteralAtStart(s) /\ ShapeEnd(s) + 1 = Len(s)
FixedLiterals == {s \in Inputs : IsFixedLiteral(s)}

\* C10 as stated: two fixed-point literals whose fraction digit runs differ
\* never yield the same FixedPoint payload from fixed_parser.
C10_DistinctRunsDistinctPayloads ==
    (target = "fixed_parser" /\ pc = "done" /\ IsFixedLiteral(input)) =>
        \A t \in FixedLiterals :
            (FracRun(t) # FracRun(input)
               /\ Run("fixed_parser", t, 0).st = "ok") =>
                Run("fixed_parser", t, 0).val # result.val

\* C10 amended: two fixed-point literals whose fraction digit runs differ
\* in more than leading zeros never yield the same FixedPoint payload from
\* fixed_parser.
C10_DistinctValuesDistinctPayloads ==
    (target = "fixed_parser" /\ pc = "done" /\ IsFixedLiteral(input)) =>
        \A t \in FixedLiterals :
            (StripZeros(FracRun(t)) # StripZeros(FracRun(input))
               /\ Run("fixed_parser", t, 0).st = "ok") =>
                Run("fixed_parser", t, 0).val # result.val

\* C10 witness: fixed_parser has returned the payload of ".3d", and ".30d"
\* is a literal it accepts with another fraction payload.
C10_Witness ==
    /\ target = "fixed_parser" /\ pc = "done"
    /\ input = <<".", "3", "d">>
    /\ result.val = FixedPoint(0, 3)
    /\ <<".", "3", "0", "d">> \in FixedLiterals
    /\ Run("fixed_parser", <<".", "3", "0", "d">>, 0).val = FixedPoint(0, 30)

\* C11: for digit runs I and F that fit in 64 bits, fixed_parser returns
\* FixedPoint(base10(I), base10(F)) on I'.'F, FixedPoint(base10(I), 0) on I
\* with an optional '.', and FixedPoint(0, base10(F)) on '.'F, each
\* followed by d or D; it fails when the suffix is absent or both runs are.
C11_FixedPayloads ==
    (target = "fixed_parser" /\ Terminal) =>
        /\ (FixedLiteralAtStart(input)
              /\ ~Overflows(IntRun(input), 10)
              /\ ~Overflows(FracRun(input), 10)) =>
                /\ pc = "done"
                /\ cursor = ShapeEnd(input) + 1
                /\ result.val = FixedPoint(DigitsValue(IntRun(input), 10),
                                           DigitsValue(FracRun(input), 10))
        /\ ~FixedLiteralAtStart(input) => pc = "failed"

\* C11 witness: fixed_parser has returned both payloads of a literal with
\* an integer run and a different fraction run.
C11_Witness ==
    /\ target = "fixed_parser" /\ pc = "done"
    /\ IntRun(input) # <<>> /\ FracRun(input) # <<>>
    /\ result.val.kind = "FixedPoint"
    /\ result.val.a # result.val.b
    /\ cursor = ShapeEnd(input) + 1

\* The canonical spelling the reserved-word recognizer under test looks for.
Spelling ==
    CASE target = "true_parser" -> <<"T", "R", "U", "E">>
      [] target = "false_parser" -> <<"F", "A", "L", "S", "E">>
      [] target = "make_parser" -> to_string(keyword)

\* Letters, digits and underscore.
IdentifierChars ==
    Letters \cup {"_", "0", "1", "2", "3", "4", "5", "6", "7", "8", "9"}

\* The longest run of identifier characters at the start of s.
MaximalWord(s) ==
    LET n == CHOOSE m \in 0..Len(s) :
                 /\ \A k \in 1..m : s[k] \in IdentifierChars
                 /\ m = Len(s) \/ s[m + 1] \notin IdentifierChars
    IN  SubSeq(s, 1, n)

\* C12: every reserved-word recognizer (make_parser of each keyword,
\* true_parser, false_parser) succeeds iff the maximal run of identifier
\* characters at the cursor equals the canonical spelling exactly, and then
\* the cursor has advanced by the length of that spelling.
C12_WholeWordCaseSensitive ==
    (target \in {"true_parser", "false_parser", "make_parser"} /\ Terminal) =>
        /\ pc \in {"done", "failed"}
        /\ pc = "done" <=> MaximalWord(input) = Spelling
        /\ pc = "done" => cursor = Len(Spelling)

\* C12 witness: the struct recognizer has matched "struct " and consumed
\* "struct" only.
C12_Witness ==
    /\ target = "make_parser" /\ pc = "done"
    /\ keyword = <<"S", "t", "r", "u", "c", "t">>
    /\ input = <<"s", "t", "r", "u", "c", "t", " ">>
    /\ cursor = 6

\* The upper-case letters and, at the same places, their lower-case forms.
UpperCase == <<"A", "B", "C", "D", "E", "F", "G", "H", "I", "J", "K", "L", "M", "N", "O", "P", "Q", "R", "S", "T", "U", "V", "W", "X", "Y", "Z">>
LowerCase == <<"a", "b", "c", "d", "e", "f", "g", "h", "i", "j", "k", "l", "m", "n", "o", "p", "q", "r", "s", "t", "u", "v", "w", "x", "y", "z">>

\* w is v with every upper-case letter replaced by its lower-case form.
IsLowercased(w, v) ==
    /\ Len(w) = Len(v)
    /\ \A n \in 1..Len(v) :
          \/ \E m \in 1..Len(UpperCase) : v[n] = UpperCase[m] /\ w[n] = LowerCase[m]
          \/ w[n] = v[n] /\ \A m \in 1..Len(UpperCase) : v[n] # UpperCase[m]

\* C13: for every Keyword k, k.make_parser() applied to k.to_string()
\* returns Ok(k) and consumes the whole text; the spelling is the
\* lower-cased variant name except for TRUE, FALSE, Object and ValueBase.
C13_KeywordRoundTrip ==
    (target = "make_parser" /\ Terminal /\ input = to_string(keyword)) =>
        /\ pc = "done"
        /\ result.val = KeywordOut(keyword)
        /\ cursor = Len(input)
        /\ CASE keyword = <<"T", "r", "u", "e">> -> input = <<"T", "R", "U", "E">>
             [] keyword = <<"F", "a", "l", "s", "e">> ->
                    input = <<"F", "A", "L", "S", "E">>
             [] keyword \in {<<"O", "b", "j", "e", "c", "t">>,
                             <<"V", "a", "l", "u", "e", "B", "a", "s", "e">>} ->
                    input = keyword
             [] OTHER -> IsLowercased(input, keyword)

\* C13 witness: the UInt16 recognizer has matched its own spelling,
\* "uint16", whole.
C13_Witness ==
    /\ target = "make_parser" /\ pc = "done"
    /\ keyword = <<"U", "I", "n", "t", "1", "6">>
    /\ input = <<"u", "i", "n", "t", "1", "6">>
    /\ result.val = KeywordOut(keyword)
    /\ cursor = 6

\* How many '"' stand before the k-th character of s.
QuotesBefore(s, k) == Cardinality({j \in 1..(k - 1) : s[j] = "\""})

\* The k-th character of s stands inside a quoted segment.
InsideQuotes(s, k) == s[k] # "\"" /\ QuotesBefore(s, k) % 2 = 1

\* s is one or more double-quoted segments with only whitespace between.
IsSegmented(s) ==
    /\ Len(s) >= 2
    /\ s[1] = "\"" /\ s[Len(s)] = "\""
    /\ QuotesBefore(s, Len(s)) % 2 = 1
    /\ \A k \in 1..Len(s) :
          (s[k] # "\"" /\ ~InsideQuotes(s, k)) => IsWhitespace(s[k])

\* The characters of s inside quoted segments, from the k-th on, in order.
RECURSIVE SegmentContents(_, _)
SegmentContents(s, k) ==
    IF k > Len(s) THEN <<>>
    ELSE (IF InsideQuotes(s, k) THEN <<s[k]>> ELSE <<>>)
             \o SegmentContents(s, k + 1)

\* C14: on an input made of one or more double-quoted segments separated
\* only by whitespace, string_parser returns Str of the segments' contents
\* concatenated in source order with nothing inserted between them; an
\* empty segment contributes nothing.
C14_StringConcatenation ==
    (target = "string_parser" /\ Terminal /\ IsSegmented(input)) =>
        /\ pc = "done"
        /\ result.val = Str(SegmentContents(input, 1))

\* C14 witness: string_parser has joined two segments that a space keeps
\* apart.
C14_Witness ==
    /\ target = "string_parser" /\ pc = "done"
    /\ input = <<"\"", "a", "\"", " ", "\"", "b", "\"">>
    /\ result.val = Str(<<"a", "b">>)

\* C15: float_parser succeeds exactly on inputs that begin with digits '.'
\* digits, digits '.', or '.' digits (so not on "." alone nor on digits
\* without a '.'), and consumes the integer run, the dot and the whole
\* fraction run.
C15_FloatShapes ==
    (target = "float_parser" /\ Terminal) =>
        /\ pc \in {"done", "failed"}
        /\ pc = "done" <=>
              (HasDot(input) /\ (IntRun(input) # <<>> \/ FracRun(input) # <<>>))
        /\ pc = "done" =>
              (result.val.kind = "FloatingPoint" /\ cursor = ShapeEnd(input))

\* C15 witness: float_parser has consumed an integer run, the dot and a
\* fraction run.
C15_Witness ==
    /\ target = "float_parser" /\ pc = "done"
    /\ IntRun(input) # <<>> /\ FracRun(input) # <<>>
    /\ cursor = Len(IntRun(input)) + 1 + Len(FracRun(input))

\* C16: char_parser succeeds only when exactly one character stands between
\* the two single quotes, returning Character of it with the cursor after
\* the closing quote; it fails when no character or more than one stands
\* between the quotes.
C16_ExactlyOneCharacter ==
    (target = "char_parser" /\ Terminal) =>
        /\ pc = "done" =>
              /\ Len(input) >= 3
              /\ input[1] = "'" /\ input[3] = "'"
              /\ result.val = Character(input[2])
              /\ cursor = 3
        /\ (Len(input) >= 2 /\ input[1] = "'" /\ input[2] = "'"
               /\ (Len(input) = 2 \/ input[3] # "'")) => pc = "failed"
        /\ (Len(input) >= 3 /\ input[1] = "'" /\ input[3] # "'") =>
              pc = "failed"

\* C16 witness: char_parser has returned the one character between the
\* quotes.
C16_Witness ==
    /\ target = "char_parser" /\ pc = "done"
    /\ input = <<"'", "A", "'">>
    /\ result.val = Character("A")
    /\ cursor = 3

BeginsWithSegment(s) ==
    /\ Len(s) >= 2
    /\ s[1] = "\""
    /\ \E k \in 2..Len(s) : s[k] = "\""

\* C18: string_parser succeeds on every input, with Str("") and the cursor
\* unadvanced when the input does not begin with a complete quoted
\* segment; so Literal::parser() never returns a failure, and returns
\* Str("") having consumed nothing on an input no other alternative matches.
C18_StringNeverFails ==
    /\ (target = "string_parser" /\ Terminal) =>
          /\ pc = "done"
          /\ result.val.kind = "Str"
          /\ ~BeginsWithSegment(input) =>
                (result.val = Str(<<>>) /\ cursor = 0)
    /\ target = "parser" => pc # "failed"
    /\ (target = "parser" /\ Terminal
          /\ \A k \in 1..5 : Run(parser[k], input, 0).st = "fail") =>
          /\ pc = "done"
          /\ result.val.kind = "Str"
          /\ ~BeginsWithSegment(input) =>
                (result.val = Str(<<>>) /\ cursor = 0)

\* C18 witness: Literal::parser() has returned Str("") on ".", which none
\* of its other alternatives matches, having consumed nothing.
C18_Witness ==
    /\ target = "parser" /\ pc = "done"
    /\ input = <<".">>
    /\ Len(attempts) = 6
    /\ result = Ok(Str(<<>>), 0)
    /\ cursor = 0

====
